---- MODULE Spec2Model ----
(***************************************************************************)
(* A model of the breakout orchestrator: the command extractor             *)
(* (orchestrator/main.py, extract_command) and the orchestration loop      *)
(* (orchestrator/main.py, main).                                           *)
(*                                                                         *)
(* Text is modelled as a sequence of one-character strings, so that the    *)
(* regular expressions and the str methods of the source are computed      *)
(* character by character, as Python computes them.                        *)
(***************************************************************************)
EXTENDS Integers, Sequences, FiniteSets, TLC

(***************************************************************************)
(* Character classes of the source.                                        *)
(***************************************************************************)
\* the backtick character (a TLA+ string literal cannot hold one)
BT == "BACKTICK"

\* the whitespace class of re and the characters str.strip() removes
WS == {" ", "\t", "\n"}

\* the leading character class of the re.sub of main.py:70 and :99
MdLead == {"*", BT, "_", ">", "\"", "'", "(", ")"} \cup WS

\* the trailing character class of the re.sub of main.py:70 and :99
MdTrail == {"*", BT, "_", "\"", "'"} \cup WS

\* the leading character class of the inline pattern, main.py:117
InlineLead == {"*", "(", "_", "[", BT, ">"} \cup WS

\* the word of the tag, lower case: the patterns ignore case
CommandWord == <<"c", "o", "m", "m", "a", "n", "d">>

ThinkWord == <<"t", "h", "i", "n", "k">>

\* one character in lower case, as case-insensitive matching compares it
LowerOf(c) ==
  CASE c = "A" -> "a" [] c = "B" -> "b" [] c = "C" -> "c" [] c = "D" -> "d"
    [] c = "E" -> "e" [] c = "F" -> "f" [] c = "G" -> "g" [] c = "H" -> "h"
    [] c = "I" -> "i" [] c = "J" -> "j" [] c = "K" -> "k" [] c = "L" -> "l"
    [] c = "M" -> "m" [] c = "N" -> "n" [] c = "O" -> "o" [] c = "P" -> "p"
    [] c = "Q" -> "q" [] c = "R" -> "r" [] c = "S" -> "s" [] c = "T" -> "t"
    [] c = "U" -> "u" [] c = "V" -> "v" [] c = "W" -> "w" [] c = "X" -> "x"
    [] c = "Y" -> "y" [] c = "Z" -> "z" [] OTHER -> c

(***************************************************************************)
(* str methods.                                                            *)
(***************************************************************************)
RECURSIVE FirstNotIn(_, _, _)
\* the least index >= i of s whose character is not in cls, Len(s)+1 if none
FirstNotIn(s, i, cls) ==
  IF i > Len(s) THEN Len(s) + 1
  ELSE IF s[i] \in cls THEN FirstNotIn(s, i + 1, cls) ELSE i

RECURSIVE LastNotIn(_, _, _)
\* the greatest index <= i of s whose character is not in cls, 0 if none
LastNotIn(s, i, cls) ==
  IF i < 1 THEN 0
  ELSE IF s[i] \in cls THEN LastNotIn(s, i - 1, cls) ELSE i

\* s.strip(chars): every leading and trailing character of cls removed
StripChars(s, cls) ==
  LET a == FirstNotIn(s, 1, cls)
      b == LastNotIn(s, Len(s), cls)
  IN IF a > b THEN <<>> ELSE SubSeq(s, a, b)

\* s.strip()
Strip(s) == StripChars(s, WS)

\* s.startswith(p)
StartsWith(s, p) == Len(s) >= Len(p) /\ SubSeq(s, 1, Len(p)) = p

\* s.endswith(p)
EndsWith(s, p) ==
  Len(s) >= Len(p) /\ SubSeq(s, Len(s) - Len(p) + 1, Len(s)) = p

RECURSIVE FirstIn(_, _, _)
\* the least index >= i of s whose character is in cls, Len(s)+1 if none
FirstIn(s, i, cls) ==
  IF i > Len(s) THEN Len(s) + 1
  ELSE IF s[i] \in cls THEN i ELSE FirstIn(s, i + 1, cls)

RECURSIVE SplitLines(_)
\* text.splitlines(): no empty last line after a final line break
SplitLines(s) ==
  IF s = <<>> THEN <<>>
  ELSE LET k == FirstIn(s, 1, {"\n"})
       IN IF k > Len(s) THEN <<s>>
          ELSE <<SubSeq(s, 1, k - 1)>> \o SplitLines(SubSeq(s, k + 1, Len(s)))

(***************************************************************************)
(* The regular expressions of extract_command, matched as re matches them: *)
(* leftmost, greedy and lazy quantifiers in their order of preference.     *)
(***************************************************************************)
RECURSIVE WordAt(_, _, _, _)
\* w[k..] matches s at index i, in any case
WordAt(s, i, w, k) ==
  IF k > Len(w) THEN TRUE
  ELSE IF i > Len(s) THEN FALSE
  ELSE LowerOf(s[i]) = w[k] /\ WordAt(s, i + 1, w, k + 1)

\* the tag of word w ("<", spaces, w in any case, spaces, ">") matched at
\* index i: the index after the match, 0 if none
TagAt(s, i, w) ==
  IF i > Len(s) \/ s[i] # "<" THEN 0
  ELSE LET a == FirstNotIn(s, i + 1, WS)
       IN IF ~WordAt(s, a, w, 1) THEN 0
          ELSE LET b == FirstNotIn(s, a + Len(w), WS)
               IN IF b <= Len(s) /\ s[b] = ">" THEN b + 1 ELSE 0

\* the closing tag of word w ("</", spaces, w, spaces, ">") matched at index
\* i: the index after the match, 0 if none
CloseTagAt(s, i, w) ==
  IF i + 1 > Len(s) \/ s[i] # "<" \/ s[i + 1] # "/" THEN 0
  ELSE LET a == FirstNotIn(s, i + 2, WS)
       IN IF ~WordAt(s, a, w, 1) THEN 0
          ELSE LET b == FirstNotIn(s, a + Len(w), WS)
               IN IF b <= Len(s) /\ s[b] = ">" THEN b + 1 ELSE 0

RECURSIVE CloseTagFrom(_, _, _)
\* the first closing tag at or after index i: the index after it, 0 if none
CloseTagFrom(s, i, w) ==
  LET k == FirstIn(s, i, {"<"})
      e == CloseTagAt(s, k, w)
  IN IF k > Len(s) THEN 0
     ELSE IF e # 0 THEN e ELSE CloseTagFrom(s, k + 1, w)

RECURSIVE StripThinkFrom(_, _)
\* the re.sub of main.py:59 from index i: each leftmost think section, from
\* its opening tag to the first closing tag after it, becomes one space
StripThinkFrom(s, i) ==
  LET k == FirstIn(s, i, {"<"})
      a == TagAt(s, k, ThinkWord)
      e == IF a = 0 THEN 0 ELSE CloseTagFrom(s, a, ThinkWord)
  IN IF k > Len(s) THEN SubSeq(s, i, Len(s))
     ELSE IF e = 0 THEN SubSeq(s, i, k) \o StripThinkFrom(s, k + 1)
     ELSE SubSeq(s, i, k - 1) \o <<" ">> \o StripThinkFrom(s, e)

\* main.py:59
StripThink(text) == StripThinkFrom(text, 1)

\* the re.sub of main.py:70 and :99: the leading run of MdLead characters
\* and, of what is left, the trailing run of MdTrail characters are removed
MdStrip(line) ==
  LET a == FirstNotIn(line, 1, MdLead)
      b == LastNotIn(line, Len(line), MdTrail)
  IN IF a > b THEN <<>> ELSE SubSeq(line, a, b)

\* the re.match of main.py:72: md_stripped starts with a Command tag
IsCommandTagStart(md_stripped) == TagAt(md_stripped, 1, CommandWord) # 0

RECURSIVE HasCommandTagFrom(_, _)
HasCommandTagFrom(s, i) ==
  LET k == FirstIn(s, i, {"<"})
  IN IF k > Len(s) THEN FALSE
     ELSE TagAt(s, k, CommandWord) # 0 \/ HasCommandTagFrom(s, k + 1)

\* the re.search of main.py:112: a Command tag anywhere in text
HasCommandTag(text) == HasCommandTagFrom(text, 1)

\* a character the group of main.py:74 accepts: no backtick, line break, "<"
SameLineChar(c) == c \notin {BT, "\n", "<"}

RECURSIVE SameLineGroupAt(_, _, _)
\* The group of main.py:74 for a tag that ends before index a, when the
\* spaces after the tag take the k characters a..a+k-1 (tried from the
\* longest run down): the optional backtick is taken when the group can
\* follow it; the lazy group takes ONE character, because everything after
\* it in the pattern is optional.  <<>> when no k gives a match.
SameLineGroupAt(line, a, k) ==
  IF k < 0 THEN <<>>
  ELSE LET p == a + k
       IN IF p <= Len(line) /\ line[p] = BT /\ p + 1 <= Len(line)
               /\ SameLineChar(line[p + 1])
          THEN <<line[p + 1]>>
          ELSE IF p <= Len(line) /\ SameLineChar(line[p])
          THEN <<line[p]>>
          ELSE SameLineGroupAt(line, a, k - 1)

RECURSIVE SameLineSearch(_, _)
\* re.search of main.py:74 from index i: group(1), <<>> when there is no match
SameLineSearch(line, i) ==
  IF i > Len(line) THEN <<>>
  ELSE LET a == TagAt(line, i, CommandWord)
           g == IF a = 0 THEN <<>>
                ELSE SameLineGroupAt(line, a, FirstNotIn(line, a, WS) - a)
       IN IF g # <<>> THEN g ELSE SameLineSearch(line, i + 1)

\* candidate.strip('"').strip("'"), main.py:77, :107 and :122
StripQuotes(s) == StripChars(StripChars(s, {"\""}), {"'"})

(***************************************************************************)
(* extract_command, main.py:43-126.  Its result is a record: ok with the   *)
(* command returned, or not ok with the message of the ValueError raised.  *)
(***************************************************************************)
Returned(cmd) == [ok |-> TRUE, cmd |-> cmd, err |-> ""]

Raised(msg) == [ok |-> FALSE, cmd |-> <<>>, err |-> msg]

\* main.py:113, the ValueError of a block with a Command tag and no command
TagPresentError == "No <Command> found in pre-exec block"

\* main.py:126, the ValueError of a block with no command at all
NoCommandError == "No Command found in pre-exec block"

\* the marker of a fenced code block, main.py:87
Fence == <<BT, BT, BT>>

\* main.py:74-78: the command on the line of the tag, <<>> when there is none
SameLineCandidate(line) ==
  LET g == SameLineSearch(line, 1)
  IN IF Strip(g) # <<>> THEN StripQuotes(Strip(g)) ELSE <<>>

\* a scan that takes no line for the next tag
IsNextTagNever(line) == FALSE

\* main.py:99-100: outside a fence, the stripped line starts a tag
IsNextTag(line) == StartsWith(MdStrip(line), <<"<">>)

\* a scan that accepts no candidate and reads on
TrimCandidateNone(candidate) == <<>>

\* main.py:104-107: one pair of backticks, then the quotes, are removed
TrimCandidate(candidate) ==
  StripQuotes(IF StartsWith(candidate, <<BT>>) /\ EndsWith(candidate, <<BT>>)
              THEN Strip(SubSeq(candidate, 2, Len(candidate) - 1))
              ELSE candidate)

RECURSIVE ScanLines(_, _, _, _)
\* the for loop of main.py:65-109 from line i: the command it returns, or
\* found = FALSE when the loop ends (by exhaustion or by the break of :101)
ScanLines(lines, i, in_command, in_fence) ==
  IF i > Len(lines) THEN [found |-> FALSE, cmd |-> <<>>]
  ELSE
    LET line == Strip(lines[i])
    IN IF ~in_command
       THEN IF IsCommandTagStart(MdStrip(line))
            THEN IF SameLineCandidate(line) # <<>>
                 THEN [found |-> TRUE, cmd |-> SameLineCandidate(line)]
                 ELSE ScanLines(lines, i + 1, TRUE, in_fence)
            ELSE ScanLines(lines, i + 1, FALSE, in_fence)
       ELSE IF line = <<>>
            THEN ScanLines(lines, i + 1, TRUE, in_fence)
            ELSE IF StartsWith(line, Fence)
            THEN ScanLines(lines, i + 1, TRUE, ~in_fence)
            ELSE IF ~in_fence /\ IsNextTag(line)
            THEN [found |-> FALSE, cmd |-> <<>>]
            ELSE IF TrimCandidate(line) # <<>>
            THEN [found |-> TRUE, cmd |-> TrimCandidate(line)]
            ELSE ScanLines(lines, i + 1, TRUE, in_fence)

\* the end of the inline pattern after the group, at index e: an optional
\* backtick, an optional ")", spaces, and the end of a line
InlineTailOK(text, e) ==
  LET e1 == IF e <= Len(text) /\ text[e] = BT THEN e + 1 ELSE e
      e2 == IF e1 <= Len(text) /\ text[e1] = ")" THEN e1 + 1 ELSE e1
      e3 == FirstNotIn(text, e2, WS \ {"\n"})
  IN e3 > Len(text) \/ text[e3] = "\n"

RECURSIVE InlineGroupFrom(_, _, _)
\* the lazy group of the inline pattern from index g: the shortest run
\* g..e-1 without backtick or line break that the end of the pattern follows
InlineGroupFrom(text, g, e) ==
  IF e > g /\ InlineTailOK(text, e) THEN SubSeq(text, g, e - 1)
  ELSE IF e <= Len(text) /\ text[e] \notin {BT, "\n"}
  THEN InlineGroupFrom(text, g, e + 1)
  ELSE <<>>

RECURSIVE InlineGroupAt(_, _, _)
\* the group when the spaces after the separator take k characters from
\* index a (the longest run first), with and then without the backtick
InlineGroupAt(text, a, k) ==
  IF k < 0 THEN <<>>
  ELSE LET p == a + k
           withTick == IF p <= Len(text) /\ text[p] = BT
                       THEN InlineGroupFrom(text, p + 1, p + 1) ELSE <<>>
           without == InlineGroupFrom(text, p, p)
       IN IF withTick # <<>> THEN withTick
          ELSE IF without # <<>> THEN without
          ELSE InlineGroupAt(text, a, k - 1)

\* the inline pattern of main.py:116-118 matched from the line start s:
\* group(1), <<>> when it does not match there
InlineAt(text, s) ==
  LET p0 == FirstNotIn(text, s, InlineLead)
      p1 == IF p0 <= Len(text) /\ text[p0] = "<" THEN p0 + 1 ELSE p0
      p2 == FirstNotIn(text, p1, WS)
      p3 == FirstNotIn(text, p2 + Len(CommandWord), WS)
      p4 == IF p3 <= Len(text) /\ text[p3] = ">" THEN p3 + 1 ELSE p3
      p5 == FirstNotIn(text, p4, WS)
  IN IF WordAt(text, p2, CommandWord, 1) /\ p5 <= Len(text)
          /\ text[p5] \in {":", "-"}
     THEN InlineGroupAt(text, p5 + 1, FirstNotIn(text, p5 + 1, WS) - (p5 + 1))
     ELSE <<>>

RECURSIVE InlineSearch(_, _)
\* inline_pattern.search(text), main.py:119: the group of the match at the
\* first line start (s and every index after a line break) that has one
InlineSearch(text, s) ==
  IF s > Len(text) THEN <<>>
  ELSE LET g == InlineAt(text, s)
       IN IF g # <<>> THEN g
          ELSE InlineSearch(text, FirstIn(text, s, {"\n"}) + 1)

\* an extractor that falls through to the inline pattern
TagNeverBlocksInline(text) == FALSE

\* main.py:111-113: a block with a Command tag never reaches the inline pattern
TagBlocksInline(text) == HasCommandTag(text)

\* main.py:43-126
extract_command(pre_exec_block) ==
  LET text == StripThink(pre_exec_block)
      scan == ScanLines(SplitLines(text), 1, FALSE, FALSE)
      cmd  == StripQuotes(Strip(InlineSearch(text, 1)))
  IN IF scan.found THEN Returned(scan.cmd)
     ELSE IF TagBlocksInline(text) THEN Raised(TagPresentError)
     ELSE IF cmd # <<>> THEN Returned(cmd)
     ELSE Raised(NoCommandError)

(***************************************************************************)
(* The helpers of the orchestration loop, main.py:167-280.  The wall-clock *)
(* fields of the records (t, latency_s, the value of ended_at) carry no    *)
(* control flow; ended_at is either Null or the constant EndedAt.          *)
(***************************************************************************)
Null == "null"

EndedAt == "ended_at"

\* main.py:167-178: the meta object of a started run
write_meta_started(container_name, llm_mode, prompt_text) ==
  [container |-> container_name, mode |-> llm_mode, prompt |-> prompt_text,
   started_at |-> "started_at", ended_at |-> Null]

\* a rewrite that loses the prompt
write_meta_finished_bare(meta) ==
  [meta EXCEPT !.ended_at = EndedAt, !.prompt = ""]

\* main.py:183: the meta object with its end time set
write_meta_finished(meta) == [meta EXCEPT !.ended_at = EndedAt]

\* a writer that truncates the log
log_command_event_truncates(events_file, pre_exec, command, stdout, stderr, exit_code) ==
  <<[kind |-> "command", plan |-> pre_exec, command |-> command,
     stdout |-> stdout, stderr |-> stderr, exit_code |-> exit_code]>>

\* main.py:201-212: the log with one command record appended
log_command_event(events_file, pre_exec, command, stdout, stderr, exit_code) ==
  Append(events_file,
         [kind |-> "command", plan |-> pre_exec, command |-> command,
          stdout |-> stdout, stderr |-> stderr, exit_code |-> exit_code])

\* a writer that puts the post record in front of the log
log_post_event_first(events_file, post_exec) ==
  <<[kind |-> "post", post |-> post_exec]>> \o events_file

\* main.py:215-221: the log with one post record appended
log_post_event(events_file, post_exec) ==
  Append(events_file, [kind |-> "post", post |-> post_exec])

\* main.py:224-230: the log with one guard record appended; the record has
\* the key guard, whose message is made of the command and the count
log_guard_event(events_file, command, repeated) ==
  Append(events_file,
         [kind |-> "guard",
          guard |-> [command |-> command, repeated |-> repeated]])

\* main.py:233-243: the context with one pre entry appended
append_pre_context(context_file, pre_exec, command, exit_code, stdout) ==
  Append(context_file,
         [kind |-> "pre", pre_exec |-> pre_exec, command |-> command,
          exit_code |-> exit_code, stdout |-> stdout])

\* main.py:246-249: the context with one post entry appended
append_post_context(context_file, post_exec) ==
  Append(context_file, [kind |-> "post", post_exec |-> post_exec])

\* a timeout reported as an ordinary failure
TimedOutAsFailure ==
  [stdout |-> "", stderr |-> "Command timed out", exit_code |-> 1]

\* main.py:265-268: the result of a command that timed out
TimedOut == [stdout |-> "", stderr |-> "Command timed out", exit_code |-> -1]

\* the return codes of a completed docker exec: 0, and -1, which
\* subprocess.run reports for a client killed by signal 1
ReturnCodes == {0, -1}

\* main.py:262-264: the result of a command that completed with code rc
Completed(rc) == [stdout |-> "OK", stderr |-> "", exit_code |-> rc]

\* main.py:252-270: what a call can do: return the result of a completed
\* command, return the timeout result, or let another exception of
\* subprocess.run escape (only TimeoutExpired is caught), before the
\* command ran (the docker client is missing) or after it ran (its output
\* is not valid text)
execute_in_container ==
  {[raised |-> FALSE, ran |-> TRUE, how |-> "completed", result |-> Completed(rc)] :
     rc \in ReturnCodes}
    \cup {[raised |-> FALSE, ran |-> TRUE, how |-> "timeout", result |-> TimedOut]}
    \cup {[raised |-> TRUE, ran |-> r, how |-> "raised", result |-> TimedOut] :
            r \in BOOLEAN}

\* a guard whose count starts at 1
update_repeat_guard_from_one(last_command, current_command, repeat_count, max_repeat) ==
  LET count == IF current_command = last_command THEN repeat_count + 1 ELSE 1
  IN <<count, count >= max_repeat - 1>>

\* a guard that compares the count with max_repeat itself
update_repeat_guard_late(last_command, current_command, repeat_count, max_repeat) ==
  LET count == IF current_command = last_command THEN repeat_count + 1 ELSE 0
  IN <<count, count >= max_repeat>>

\* main.py:273-280: <<repeat_count, should_break>>
update_repeat_guard(last_command, current_command, repeat_count, max_repeat) ==
  LET count == IF current_command = last_command THEN repeat_count + 1 ELSE 0
  IN <<count, count >= max_repeat - 1>>

(***************************************************************************)
(* The inputs of the loop.                                                 *)
(***************************************************************************)
\* the longest run, in iterations of the loop
MaxSteps == 3

\* the largest MAX_REPEAT a run is configured with (main.py:153)
MaxRepeat == 3

TagLine == <<"<", "C", "o", "m", "m", "a", "n", "d", ">">>

\* three pre-exec blocks: two with a command, one with a tag and no command
BlockLs == TagLine \o <<"\n", "l", "s">>

BlockPs == TagLine \o <<"\n", "p", "s">>

BlockBad == TagLine \o <<"\n", "<", "E", ">">>

PreBlocks == {BlockLs, BlockPs, BlockBad}

\* a post-exec block
PostText == <<"<", "N", "e", "x", "t", ">">>

\* last_command = None, main.py:298
NoneCmd == <<"None">>

\* no execution result yet
NoResult == [stdout |-> "", stderr |-> "", exit_code |-> 0]

\* extract_command on the blocks of the loop
ExtractTable == [b \in PreBlocks \cup {<<>>, PostText} |-> extract_command(b)]

VARIABLES
  pc,              \* the statement of main() the run is at
  max_repeat,      \* main.py:285
  step,            \* main.py:297
  last_command,    \* main.py:298
  repeat_count,    \* main.py:299
  pre_exec,        \* main.py:306
  command,         \* main.py:313
  should_break,    \* main.py:318
  result,          \* main.py:326: stdout, stderr, exit_code
  post_exec,       \* main.py:341
  events,          \* the records of events.jsonl
  events_closed,   \* events_file.close() was called
  context,         \* the entries of context.txt
  meta_file,       \* the content of meta.json
  raised,          \* the exception leaving the loop body, "none" if none
  meta_error,      \* write_meta_finished raised
  extracted_cmds,  \* history: the commands extract_command returned
  executed,        \* history: the commands the sandbox ran
  exec_calls,      \* history: calls of execute_in_container in this iteration
  post_count,      \* history: non-empty reflections returned
  context_writable,\* environment: whether context.txt can be written
  outcome,         \* history: how the last execute_in_container call ended
  meta_writes,     \* history: calls of write_meta_finished
  block,           \* the input of a stand-alone extract_command call
  extracted,       \* its result, NotExtracted before the call
  stdin,           \* llm_driver.py:31: the text the replay driver reads
  segments,        \* llm_driver.py:13, self._segments
  idx,             \* llm_driver.py:14, self._idx
  loaded,          \* llm_driver.py:12, self._loaded
  returned,        \* history: what the calls of the driver returned
  metrics          \* scorer.py:89: the result of compute_metrics

loop_vars ==
  <<pc, max_repeat, step, last_command, repeat_count, pre_exec, command,
    should_break, result, post_exec, events, events_closed, context,
    meta_file, raised, meta_error, extracted_cmds, executed, exec_calls,
    post_count, context_writable, outcome, meta_writes>>

extract_vars == <<block, extracted>>

driver_vars == <<stdin, segments, idx, loaded, returned>>

\* what the loop leaves alone
other_vars == <<extract_vars, driver_vars, metrics>>

vars == <<loop_vars, extract_vars, driver_vars, metrics>>

NotExtracted == [ok |-> FALSE, cmd |-> <<>>, err |-> "not called"]

\* compute_metrics was not called yet
NoMetrics == [steps |-> -1, efficiency_success_rate |-> <<0, 1>>]

\* main.py:283-299: the state when the loop is entered
InitLoop ==
  /\ pc = "decide"
  /\ max_repeat \in 1..MaxRepeat
  /\ step = 0
  /\ last_command = NoneCmd
  /\ repeat_count = 0
  /\ pre_exec = <<>>
  /\ command = <<>>
  /\ should_break = FALSE
  /\ result = NoResult
  /\ post_exec = <<>>
  /\ events = <<>>
  /\ events_closed = FALSE
  /\ context = <<>>
  /\ meta_file = write_meta_started("breakout_agent", "api", "prompt")
  /\ raised = "none"
  /\ meta_error = FALSE
  /\ extracted_cmds = <<>>
  /\ executed = <<>>
  /\ exec_calls = 0
  /\ post_count = 0
  /\ context_writable \in BOOLEAN
  /\ outcome = "none"
  /\ meta_writes = 0

\* llm_driver.py:11-14: a driver that has read nothing
InitDriver ==
  /\ stdin = <<>>
  /\ segments = <<>>
  /\ idx = 0
  /\ loaded = FALSE
  /\ returned = <<>>

Init ==
  /\ InitLoop
  /\ block = <<>>
  /\ extracted = NotExtracted
  /\ InitDriver
  /\ metrics = NoMetrics

\* an exception that the loop takes for a reason to ask again
PropagateRetries(kind) ==
  /\ pc' = "decide"
  /\ raised' = kind

\* an exception that leaves main() without the finally clause
PropagateSkipsFinally(kind) ==
  /\ pc' = "done"
  /\ raised' = kind

\* an exception leaves the try block of main.py:300: control is in finally
Propagate(kind) ==
  /\ pc' = "finalize"
  /\ raised' = kind

\* a text of white space only
BlankText == <<" ", "\n">>

\* llm_driver.py:48, :34 and :162: every mode of the driver strips the text
\* it returns
DriverText(raw) == Strip(raw)

\* a loop that takes an empty block for a proposal
AfterDecideNeverBreaks(pre) == "extract"

\* main.py:307-308: an empty block ends the loop
AfterDecide(pre) == IF pre = <<>> THEN "finalize" ELSE "extract"

\* a loop that an empty reflection ends
AfterPostDecideBreaks(post) == IF post = <<>> THEN "finalize" ELSE "log_post"

\* main.py:342: an empty reflection is skipped
AfterPostDecide(post) == IF post = <<>> THEN "decide" ELSE "log_post"

\* a context write whose exception leaves the loop
ContextErrorPropagates(next) ==
  /\ pc' = "finalize"
  /\ raised' = "context"
  /\ UNCHANGED context

\* a failed context write that starts the next iteration at once
ContextErrorSkipsReflection(next) ==
  /\ pc' = "decide"
  /\ UNCHANGED <<context, raised>>

\* main.py:332-333 and :346-347: the exception of a context write is dropped
SwallowContextError(next) ==
  /\ pc' = next
  /\ UNCHANGED <<context, raised>>

\* main.py:301-309: step += 1 and driver.decide(), which returns a block,
\* returns "" or (llm_driver.py:153-166) raises
Decide ==
  /\ pc = "decide"
  /\ step < MaxSteps
  /\ step' = step + 1
  /\ exec_calls' = 0
  /\ \E r \in PreBlocks \cup {<<>>, BlankText, <<"raise">>} :
       IF r = <<"raise">>
       THEN Propagate("decide") /\ UNCHANGED pre_exec
       ELSE /\ pre_exec' = DriverText(r)
            /\ pc' = AfterDecide(pre_exec')
            /\ UNCHANGED raised
  /\ UNCHANGED <<max_repeat, last_command, repeat_count, command, should_break,
                 result, post_exec, events, events_closed, context, meta_file,
                 meta_error, extracted_cmds, executed, post_count, context_writable, outcome, meta_writes, other_vars>>

\* a skip that clears the repeat guard
OnExtractErrorResetsGuard ==
  /\ pc' = "decide"
  /\ last_command' = NoneCmd
  /\ repeat_count' = 0
  /\ UNCHANGED <<command, extracted_cmds, events, context>>

\* main.py:314-316: the ValueError is reported and the loop continues
OnExtractError ==
  /\ pc' = "decide"
  /\ UNCHANGED <<command, extracted_cmds, last_command, repeat_count, events,
                 context>>

\* main.py:312-316
Extract ==
  /\ pc = "extract"
  /\ IF ExtractTable[pre_exec].ok
     THEN /\ command' = ExtractTable[pre_exec].cmd
          /\ extracted_cmds' = Append(extracted_cmds, command')
          /\ pc' = "guard"
          /\ UNCHANGED <<last_command, repeat_count, events, context>>
     ELSE OnExtractError
  /\ UNCHANGED <<max_repeat, step, pre_exec, should_break, result, post_exec,
                 events_closed, meta_file, raised, meta_error, executed,
                 exec_calls, post_count, context_writable, outcome, meta_writes, other_vars>>

\* main.py:318-322; the write of the guard record may raise
Guard ==
  /\ pc = "guard"
  /\ LET g == update_repeat_guard(last_command, command, repeat_count, max_repeat)
     IN /\ repeat_count' = g[1]
        /\ should_break' = g[2]
        /\ last_command' = command
        /\ IF g[2]
           THEN \E written \in BOOLEAN :
                  IF written
                  THEN /\ events' = log_guard_event(events, command, g[1] + 1)
                       /\ pc' = "finalize"
                       /\ UNCHANGED raised
                  ELSE Propagate("log") /\ UNCHANGED events
           ELSE /\ pc' = "execute"
                /\ UNCHANGED <<events, raised>>
  /\ UNCHANGED <<max_repeat, step, pre_exec, command, result, post_exec,
                 events_closed, context, meta_file, meta_error, extracted_cmds,
                 executed, exec_calls, post_count, context_writable, outcome, meta_writes, other_vars>>

\* main.py:326
Execute ==
  /\ pc = "execute"
  /\ exec_calls' = exec_calls + 1
  /\ \E o \in execute_in_container :
       /\ executed' = IF o.ran THEN Append(executed, command) ELSE executed
       /\ outcome' = o.how
       /\ IF o.raised
          THEN Propagate("execute") /\ UNCHANGED result
          ELSE /\ result' = o.result
               /\ pc' = "log_command"
               /\ UNCHANGED raised
  /\ UNCHANGED <<max_repeat, step, last_command, repeat_count, pre_exec,
                 command, should_break, post_exec, events, events_closed,
                 context, meta_file, meta_error, extracted_cmds, post_count,
                 context_writable, meta_writes, other_vars>>

\* main.py:329; the write may raise
LogCommand ==
  /\ pc = "log_command"
  /\ \E written \in BOOLEAN :
       IF written
       THEN /\ events' = log_command_event(events, pre_exec, command,
                             result.stdout, result.stderr, result.exit_code)
            /\ pc' = "pre_context"
            /\ UNCHANGED raised
       ELSE Propagate("log") /\ UNCHANGED events
  /\ UNCHANGED <<max_repeat, step, last_command, repeat_count, pre_exec,
                 command, should_break, result, post_exec, events_closed,
                 context, meta_file, meta_error, extracted_cmds, executed,
                 exec_calls, post_count, context_writable, outcome, meta_writes, other_vars>>

\* main.py:330-333: the context write raises when context.txt cannot be
\* written, and the exception is swallowed
PreContext ==
  /\ pc = "pre_context"
  /\ IF context_writable
     THEN /\ context' = append_pre_context(context, pre_exec, command,
                                           result.exit_code, result.stdout)
          /\ pc' = "post_decide"
          /\ UNCHANGED raised
     ELSE SwallowContextError("post_decide")
  /\ UNCHANGED <<max_repeat, step, last_command, repeat_count, pre_exec,
                 command, should_break, result, post_exec, events,
                 events_closed, meta_file, meta_error, extracted_cmds,
                 executed, exec_calls, post_count, context_writable,
                 outcome, meta_writes, other_vars>>

\* main.py:341-342: driver.post_decide() returns a block, "" or raises
PostDecide ==
  /\ pc = "post_decide"
  /\ \E r \in {PostText, <<>>, BlankText, <<"raise">>} :
       IF r = <<"raise">>
       THEN Propagate("post_decide") /\ UNCHANGED <<post_exec, post_count>>
       ELSE /\ post_exec' = DriverText(r)
            /\ post_count' = IF post_exec' = <<>> THEN post_count
                              ELSE post_count + 1
            /\ pc' = AfterPostDecide(post_exec')
            /\ UNCHANGED raised
  /\ UNCHANGED <<max_repeat, step, last_command, repeat_count, pre_exec,
                 command, should_break, result, events, events_closed, context,
                 meta_file, meta_error, extracted_cmds, executed, exec_calls,
                 context_writable, outcome, meta_writes, other_vars>>

\* main.py:343; the write may raise
LogPost ==
  /\ pc = "log_post"
  /\ \E written \in BOOLEAN :
       IF written
       THEN /\ events' = log_post_event(events, post_exec)
            /\ pc' = "post_context"
            /\ UNCHANGED raised
       ELSE Propagate("log") /\ UNCHANGED events
  /\ UNCHANGED <<max_repeat, step, last_command, repeat_count, pre_exec,
                 command, should_break, result, post_exec, events_closed,
                 context, meta_file, meta_error, extracted_cmds, executed,
                 exec_calls, post_count, context_writable, outcome, meta_writes, other_vars>>

\* main.py:344-348: the context write raises when context.txt cannot be
\* written, and the exception is swallowed
PostContext ==
  /\ pc = "post_context"
  /\ IF context_writable
     THEN /\ context' = append_post_context(context, post_exec)
          /\ pc' = "decide"
          /\ UNCHANGED raised
     ELSE SwallowContextError("decide")
  /\ UNCHANGED <<max_repeat, step, last_command, repeat_count, pre_exec,
                 command, should_break, result, post_exec, events,
                 events_closed, meta_file, meta_error, extracted_cmds,
                 executed, exec_calls, post_count, context_writable,
                 outcome, meta_writes, other_vars>>

\* main.py:351: the rewrite of meta.json; when it raises, the exception
\* leaves the finally block before main.py:352
Finalize ==
  /\ pc = "finalize"
  /\ meta_writes' = meta_writes + 1
  /\ \E written \in BOOLEAN :
       IF written
       THEN /\ meta_file' = write_meta_finished(meta_file)
            /\ pc' = "close"
            /\ UNCHANGED meta_error
       ELSE /\ meta_error' = TRUE
            /\ pc' = "done"
            /\ UNCHANGED meta_file
  /\ UNCHANGED <<max_repeat, step, last_command, repeat_count, pre_exec,
                 command, should_break, result, post_exec, events,
                 events_closed, context, raised, extracted_cmds, executed,
                 exec_calls, post_count, context_writable, outcome, other_vars>>

\* main.py:352
Close ==
  /\ pc = "close"
  /\ events_closed' = TRUE
  /\ pc' = "done"
  /\ UNCHANGED <<max_repeat, step, last_command, repeat_count, pre_exec,
                 command, should_break, result, post_exec, events, context,
                 meta_file, raised, meta_error, extracted_cmds, executed,
                 exec_calls, post_count, context_writable, outcome, meta_writes, other_vars>>

Next ==
  \/ Decide
  \/ Extract
  \/ Guard
  \/ Execute
  \/ LogCommand
  \/ PreContext
  \/ PostDecide
  \/ LogPost
  \/ PostContext
  \/ Finalize
  \/ Close

Spec == Init /\ [][Next]_vars

----------------------------------------------------------------------------
\* extract_command called on its own, as the tests of
\* tests/test_extract_command.py call it: blocks are put together from a
\* catalogue of lines.

MaxFragments == 3

\* tests/test_extract_command.py:57-70: a command line, and the tag and the
\* text that follow it
LsLine == <<" ", "l", "s", " ", "-", "a", " ">>

ExpectedFoo ==
  <<"<", "E", "x", "p", "e", "c", "t", "e", "d", ">", "\n", "f", "o", "o">>

\* a command that ends with a quote character
EchoQuoted == <<"e", "c", "h", "o", " ", "'", "x", "'">>

\* main.py:73: the same-line forms
SameLineLs == TagLine \o <<" ", "l", "s", " ", "-", "a">>

\* main.py:115: the loose inline form
InlineLs == <<"C", "o", "m", "m", "a", "n", "d", ":", " ", "l", "s">>

\* main.py:71: a narrative mention of the tag
SeeTag == <<"s", "e", "e", " ">> \o TagLine

Fragments ==
  { TagLine,
    <<" ", "<", " ", "c", "o", "m", "m", "a", "n", "d", " ", ">", " ">>,
    <<>>,
    LsLine,
    EchoQuoted,
    ExpectedFoo,
    <<"*", "*">> \o TagLine \o <<"*", "*">>,
    SameLineLs,
    TagLine \o <<BT, "l", "s", BT>>,
    TagLine \o <<"l", "s", "<", "/", "C", "o", "m", "m", "a", "n", "d", ">">>,
    InlineLs,
    SeeTag,
    <<"<", "t", "h", "i", "n", "k", ">">> \o TagLine
      \o <<"<", "/", "t", "h", "i", "n", "k", ">">>,
    Fence }

RECURSIVE JoinLines(_)
JoinLines(fs) ==
  IF Len(fs) = 0 THEN <<>>
  ELSE IF Len(fs) = 1 THEN fs[1]
  ELSE fs[1] \o <<"\n">> \o JoinLines(Tail(fs))

\* the blocks of n lines of the catalogue
Blocks(n) == {JoinLines(fs) : fs \in [1..n -> Fragments]}

\* the loop is not running while the extractor is exercised
InitExtract ==
  /\ pc = "idle"
  /\ max_repeat = MaxRepeat
  /\ step = 0
  /\ last_command = NoneCmd
  /\ repeat_count = 0
  /\ pre_exec = <<>>
  /\ command = <<>>
  /\ should_break = FALSE
  /\ result = NoResult
  /\ post_exec = <<>>
  /\ events = <<>>
  /\ events_closed = FALSE
  /\ context = <<>>
  /\ meta_file = write_meta_started("breakout_agent", "api", "prompt")
  /\ raised = "none"
  /\ meta_error = FALSE
  /\ extracted_cmds = <<>>
  /\ executed = <<>>
  /\ exec_calls = 0
  /\ post_count = 0
  /\ context_writable = TRUE
  /\ outcome = "none"
  /\ meta_writes = 0
  /\ InitDriver
  /\ metrics = NoMetrics
  /\ \E n \in 1..MaxFragments : block \in Blocks(n)
  /\ extracted = NotExtracted

\* main.py:43-126, one call
ExtractCall ==
  /\ extracted = NotExtracted
  /\ extracted' = extract_command(block)
  /\ UNCHANGED <<loop_vars, block, driver_vars, metrics>>

NextExtract == ExtractCall

SpecExtract == InitExtract /\ [][NextExtract]_vars

----------------------------------------------------------------------------
\* The replay driver: LLMDriver in delimited mode (llm_driver.py), called
\* on its own.

\* llm_driver.py:11: the default of BLOCK_DELIM
BlockDelim == <<"-", "-", "-">>

\* the longest input stream, in catalogue lines, and the most calls
MaxStreamLines == 3

MaxCalls == 4

RECURSIVE LastIn(_, _, _, _)
\* the greatest index in lo..i of s whose character is in cls, 0 if none
LastIn(s, lo, i, cls) ==
  IF i < lo THEN 0
  ELSE IF s[i] \in cls THEN i ELSE LastIn(s, lo, i - 1, cls)

\* The pattern of llm_driver.py:33 matched at the line start p: white space
\* (line breaks too), the delimiter, then the longest run of white space
\* that stops at the end of the text or in front of a line break.  The
\* index after the match, 0 if none.
DelimEndAt(data, p) ==
  LET a == FirstNotIn(data, p, WS)
      b == a + Len(BlockDelim)
      q == FirstNotIn(data, b, WS)
  IN IF b - 1 > Len(data) \/ SubSeq(data, a, b - 1) # BlockDelim THEN 0
     ELSE IF q > Len(data) THEN Len(data) + 1
     ELSE LastIn(data, b, q - 1, {"\n"})

RECURSIVE SplitDelim(_, _, _)
\* re.split of llm_driver.py:33 from index i, where i is at or after the
\* index start at which the current part begins
SplitDelim(data, i, start) ==
  IF i > Len(data) THEN <<SubSeq(data, start, Len(data))>>
  ELSE IF (i = 1 \/ data[i - 1] = "\n") /\ DelimEndAt(data, i) # 0
  THEN <<SubSeq(data, start, i - 1)>>
         \o SplitDelim(data, DelimEndAt(data, i), DelimEndAt(data, i))
  ELSE SplitDelim(data, FirstIn(data, i, {"\n"}) + 1, start)

\* a loader that keeps the blank segments
load_stream_keeps_blank(data) ==
  LET parts == SplitDelim(data, 1, 1)
  IN [k \in 1..Len(parts) |-> Strip(parts[k])]

\* llm_driver.py:29-35, _load_stream: the stripped parts that are not empty
load_stream(data) ==
  LET parts == SplitDelim(data, 1, 1)
  IN SelectSeq([k \in 1..Len(parts) |-> Strip(parts[k])],
               LAMBDA part : part # <<>>)

\* a driver that never moves on
next_segment_stuck(segs, i) ==
  IF i >= Len(segs) THEN [text |-> <<>>, idx |-> i]
  ELSE [text |-> segs[i + 1], idx |-> i]

\* a driver that returns the last segment again
next_segment_lifo(segs, i) ==
  IF i >= Len(segs) THEN [text |-> <<>>, idx |-> i]
  ELSE [text |-> segs[Len(segs) - i], idx |-> i + 1]

\* llm_driver.py:53-57 and :88-92: the segment a call returns and the
\* index it leaves
next_segment(segs, i) ==
  IF i >= Len(segs) THEN [text |-> <<>>, idx |-> i]
  ELSE [text |-> segs[i + 1], idx |-> i + 1]

\* the lines of the input streams
StreamLines ==
  { BlockDelim,
    <<" ", "-", "-", "-", "\t">>,
    <<"-", "-", "-", "-">>,
    <<"l", "s">>,
    <<" ", "p", "s", " ", "-", "a">>,
    <<>> }

Streams(n) == {JoinLines(ls) : ls \in [1..n -> StreamLines]}

\* the loop is not running while the driver is exercised
InitReplay ==
  /\ pc = "idle"
  /\ max_repeat = MaxRepeat
  /\ step = 0
  /\ last_command = NoneCmd
  /\ repeat_count = 0
  /\ pre_exec = <<>>
  /\ command = <<>>
  /\ should_break = FALSE
  /\ result = NoResult
  /\ post_exec = <<>>
  /\ events = <<>>
  /\ events_closed = FALSE
  /\ context = <<>>
  /\ meta_file = write_meta_started("breakout_agent", "delimited", "prompt")
  /\ raised = "none"
  /\ meta_error = FALSE
  /\ extracted_cmds = <<>>
  /\ executed = <<>>
  /\ exec_calls = 0
  /\ post_count = 0
  /\ context_writable = TRUE
  /\ outcome = "none"
  /\ meta_writes = 0
  /\ block = <<>>
  /\ extracted = NotExtracted
  /\ \E n \in 0..MaxStreamLines : stdin \in Streams(n)
  /\ segments = <<>>
  /\ idx = 0
  /\ loaded = FALSE
  /\ returned = <<>>
  /\ metrics = NoMetrics

\* llm_driver.py:50-57 and :85-92: one call in delimited mode, made by
\* the method named by
DriverCall(by) ==
  /\ Len(returned) < MaxCalls
  /\ segments' = IF loaded THEN segments ELSE load_stream(stdin)
  /\ loaded' = TRUE
  /\ idx' = next_segment(segments', idx).idx
  /\ returned' = Append(returned,
                        [by |-> by, text |-> next_segment(segments', idx).text])
  /\ UNCHANGED <<loop_vars, extract_vars, stdin, metrics>>

\* llm_driver.py:37-57
DriverDecide == DriverCall("decide")

\* llm_driver.py:72-92
DriverPostDecide == DriverCall("post_decide")

NextReplay == DriverDecide \/ DriverPostDecide

SpecReplay == InitReplay /\ [][NextReplay]_vars

----------------------------------------------------------------------------
\* A replay run: main() with LLM_MODE=delimited, the loop of main.py:300-353
\* asking the replay driver of llm_driver.py, which reads a finite stream.

\* the most segments of a stream
MaxSegments == 3

\* the segments the streams are made of: a proposal with a command, a
\* proposal with none, a reflection
RunSegments == {BlockLs, BlockBad, PostText}

RECURSIVE Delimited(_, _)
\* the segments from index i on, as lines, a delimiter line between two
Delimited(segs, i) ==
  IF i > Len(segs) THEN <<>>
  ELSE IF i = Len(segs) THEN <<segs[i]>>
  ELSE <<segs[i], BlockDelim>> \o Delimited(segs, i + 1)

RunStreams(n) == {JoinLines(Delimited(segs, 1)) : segs \in [1..n -> RunSegments]}

\* _load_stream on the streams of the runs
LoadTable ==
  [data \in UNION {RunStreams(n) : n \in 0..MaxSegments} |-> load_stream(data)]

\* main.py:283-299 with llm_driver.py:9-27: the state when the loop is
\* entered, the stream not read yet
InitRun ==
  /\ pc = "decide"
  /\ max_repeat \in 1..MaxRepeat
  /\ step = 0
  /\ last_command = NoneCmd
  /\ repeat_count = 0
  /\ pre_exec = <<>>
  /\ command = <<>>
  /\ should_break = FALSE
  /\ result = NoResult
  /\ post_exec = <<>>
  /\ events = <<>>
  /\ events_closed = FALSE
  /\ context = <<>>
  /\ meta_file = write_meta_started("breakout_agent", "delimited", "prompt")
  /\ raised = "none"
  /\ meta_error = FALSE
  /\ extracted_cmds = <<>>
  /\ executed = <<>>
  /\ exec_calls = 0
  /\ post_count = 0
  /\ context_writable \in BOOLEAN
  /\ outcome = "none"
  /\ meta_writes = 0
  /\ block = <<>>
  /\ extracted = NotExtracted
  /\ \E n \in 0..MaxSegments : stdin \in RunStreams(n)
  /\ segments = <<>>
  /\ idx = 0
  /\ loaded = FALSE
  /\ returned = <<>>
  /\ metrics = NoMetrics

\* llm_driver.py:50-57 and :85-92 inside a run: the segments after the
\* call, the index it leaves and the text it returns
AskDriver ==
  LET segs == IF loaded THEN segments ELSE LoadTable[stdin]
      n == next_segment(segs, idx)
  IN [segments |-> segs, idx |-> n.idx, text |-> n.text]

\* main.py:301-309 with llm_driver.py:50-57
RunDecide ==
  /\ pc = "decide"
  /\ step' = step + 1
  /\ exec_calls' = 0
  /\ LET d == AskDriver
     IN /\ segments' = d.segments
        /\ loaded' = TRUE
        /\ idx' = d.idx
        /\ returned' = Append(returned, [by |-> "decide", text |-> d.text])
        /\ pre_exec' = d.text
        /\ pc' = AfterDecide(d.text)
  /\ UNCHANGED <<max_repeat, last_command, repeat_count, command, should_break,
                 result, post_exec, events, events_closed, context, meta_file,
                 raised, meta_error, extracted_cmds, executed, post_count,
                 context_writable, outcome, meta_writes, extract_vars, stdin,
                 metrics>>

\* main.py:341-342 with llm_driver.py:85-92
RunPostDecide ==
  /\ pc = "post_decide"
  /\ LET d == AskDriver
     IN /\ segments' = d.segments
        /\ loaded' = TRUE
        /\ idx' = d.idx
        /\ returned' = Append(returned, [by |-> "post_decide", text |-> d.text])
        /\ post_exec' = d.text
        /\ post_count' = IF d.text = <<>> THEN post_count ELSE post_count + 1
        /\ pc' = AfterPostDecide(d.text)
  /\ UNCHANGED <<max_repeat, step, last_command, repeat_count, pre_exec,
                 command, should_break, result, events, events_closed, context,
                 meta_file, raised, meta_error, extracted_cmds, executed,
                 exec_calls, context_writable, outcome, meta_writes,
                 extract_vars, stdin, metrics>>

NextRun ==
  \/ RunDecide
  \/ Extract
  \/ Guard
  \/ Execute
  \/ LogCommand
  \/ PreContext
  \/ RunPostDecide
  \/ LogPost
  \/ PostContext
  \/ Finalize
  \/ Close

SpecRun == InitRun /\ [][NextRun]_vars

\* main() is one thread and each of its operations returns (the sandbox
\* call by its timeout, main.py:260): a run that can take a step takes one
SpecRunFair == SpecRun /\ WF_vars(NextRun)

----------------------------------------------------------------------------
\* The scorer: compute_metrics of scoring/scorer.py, called on a list of
\* loaded events.  An entry of the list is a record; its field kind stands
\* for the shape of the JSON value ("scalar" for a value that is no object)
\* and is no key of the object.

\* the longest event list
MaxEvents == 4

\* scorer.py:34: isinstance(e, dict)
IsDict(e) == e.kind # "scalar"

\* scorer.py:34: "command" in e
HasKey(e, key) == key \in (DOMAIN e \ {"kind"})

\* a selection that takes every object for a command event
command_events_all(evs) == SelectSeq(evs, IsDict)

\* scorer.py:34
command_events(evs) ==
  SelectSeq(evs, LAMBDA e : IsDict(e) /\ HasKey(e, "command"))

\* scorer.py:41: e.get("exit_code") == 0, which a missing key fails
success(cmds) ==
  Cardinality({i \in 1..Len(cmds) :
                 HasKey(cmds[i], "exit_code") /\ cmds[i].exit_code = 0})

\* scorer.py:40-44: the rate as the fraction <<numerator, denominator>>,
\* <<0, 1>> for 0.0
efficiency_success_rate(cmds) ==
  IF Len(cmds) > 0 THEN <<success(cmds), Len(cmds)>> ELSE <<0, 1>>

\* scorer.py:32-44 and :72-79: the fields steps and efficiency_success_rate
compute_metrics(evs) ==
  [steps |-> Len(command_events(evs)),
   efficiency_success_rate |-> efficiency_success_rate(command_events(evs))]

\* the entries of the event lists: what the writers of the loop put in the
\* log, a command record with no exit code, and values that are no objects
ScoreEntries ==
  { log_command_event(<<>>, BlockLs, <<"l", "s">>, "OK", "", 0)[1],
    log_command_event(<<>>, BlockPs, <<"p", "s">>, "", "no", 1)[1],
    log_command_event(<<>>, BlockLs, <<"l", "s">>, TimedOut.stdout,
                      TimedOut.stderr, TimedOut.exit_code)[1],
    log_post_event(<<>>, PostText)[1],
    log_guard_event(<<>>, <<"l", "s">>, 3)[1],
    [kind |-> "object", command |-> <<"l", "s">>],
    [kind |-> "object", exit_code |-> 0],
    [kind |-> "scalar", value |-> 0] }

\* the loop and the driver are not running while the scorer is exercised
InitScore ==
  /\ pc = "idle"
  /\ max_repeat = MaxRepeat
  /\ step = 0
  /\ last_command = NoneCmd
  /\ repeat_count = 0
  /\ pre_exec = <<>>
  /\ command = <<>>
  /\ should_break = FALSE
  /\ result = NoResult
  /\ post_exec = <<>>
  /\ \E n \in 0..MaxEvents : events \in [1..n -> ScoreEntries]
  /\ events_closed = TRUE
  /\ context = <<>>
  /\ meta_file = write_meta_started("breakout_agent", "api", "prompt")
  /\ raised = "none"
  /\ meta_error = FALSE
  /\ extracted_cmds = <<>>
  /\ executed = <<>>
  /\ exec_calls = 0
  /\ post_count = 0
  /\ context_writable = TRUE
  /\ outcome = "none"
  /\ meta_writes = 0
  /\ block = <<>>
  /\ extracted = NotExtracted
  /\ InitDriver
  /\ metrics = NoMetrics

\* scorer.py:88-89: the metrics of the loaded events
ScoreCall ==
  /\ metrics = NoMetrics
  /\ metrics' = compute_metrics(events)
  /\ UNCHANGED <<loop_vars, extract_vars, driver_vars>>

NextScore == ScoreCall

SpecScore == InitScore /\ [][NextScore]_vars

----------------------------------------------------------------------------
\* Properties of the control loop

Last(seq) == seq[Len(seq)]

\* the length of the run of equal elements that ends the sequence
RECURSIVE TrailingRun(_)
TrailingRun(seq) ==
  IF Len(seq) = 0 THEN 0
  ELSE IF Len(seq) = 1 THEN 1
  ELSE IF seq[Len(seq) - 1] = seq[Len(seq)]
       THEN 1 + TrailingRun(SubSeq(seq, 1, Len(seq) - 1))
       ELSE 1

Ending == {"finalize", "close", "done"}

NumCommandEvents ==
  Cardinality({i \in 1..Len(events) : events[i].kind = "command"})

\* C1: with MAX_REPEAT = M, the guard trips exactly when the same command
\* has been extracted M times in a row: the first M-1 occurrences reach the
\* sandbox, the M-th does not, a guard record that names the command and
\* the count M is appended for it as the last record and the loop ends; no
\* command is ever executed M times in a row.
C1_GuardTripsOnMthOccurrence ==
  /\ TrailingRun(extracted_cmds) <= max_repeat
  /\ TrailingRun(executed) < max_repeat
  /\ pc \in {"execute", "log_command", "pre_context", "post_decide",
             "log_post", "post_context"}
       => TrailingRun(extracted_cmds) < max_repeat
  /\ (pc \in Ending /\ extracted_cmds # <<>> /\ last_command = Last(extracted_cmds)
        /\ TrailingRun(extracted_cmds) = max_repeat)
       => should_break
  /\ should_break
       => /\ TrailingRun(extracted_cmds) = max_repeat
          /\ pc \in Ending
          /\ Len(executed) = Len(extracted_cmds) - 1
          /\ raised = "none"
               => Last(events) = [kind |-> "guard",
                                  guard |-> [command |-> last_command,
                                             repeated |-> max_repeat]]

C1_Witness ==
  /\ pc = "done"
  /\ should_break
  /\ max_repeat = 3
  /\ raised = "none"
  /\ Len(executed) = 2
  /\ Last(events).kind = "guard"

\* C2 as the specification states it: execute_in_container is called at
\* most once per iteration, and, no log write having failed, the number of
\* commands the sandbox ran equals the number of command records.
C2_OneExecutionPerCommandEvent ==
  /\ exec_calls <= 1
  /\ pc = "execute" => exec_calls = 0
  /\ pc \in {"log_command", "pre_context", "post_decide", "log_post",
             "post_context"} => exec_calls = 1
  /\ (pc \in Ending \cup {"decide"} /\ raised # "log")
       => Len(executed) = NumCommandEvents

\* C3: an iteration whose proposal cannot be extracted goes back to
\* decide() and leaves the event log, the context, the executions, the
\* reflections and the state of the repeat guard as they were.
C3_ExtractionFailureSkips ==
  [][(pc = "extract" /\ ~ExtractTable[pre_exec].ok)
       => /\ pc' = "decide"
          /\ UNCHANGED <<events, context, executed, exec_calls, post_count,
                         last_command, repeat_count, should_break, raised>>]_vars

C3_Witness ==
  /\ pc = "decide"
  /\ step = 2
  /\ pre_exec = BlockBad
  /\ Len(events) = 2
  /\ last_command = <<"l", "s">>
  /\ repeat_count = 0
  /\ Len(executed) = 1

C5_LogAlternates ==
  (pc = "decide" /\ Len(executed) = step /\ post_count = step)
    => /\ Len(events) = 2 * step
       /\ \A k \in 1..step :
            /\ events[2 * k - 1].kind = "command"
            /\ events[2 * k - 1].command = executed[k]
            /\ events[2 * k].kind = "post"

C5_Witness ==
  /\ pc = "decide"
  /\ step = 2
  /\ Len(executed) = 2
  /\ post_count = 2
  /\ Len(events) = 4
  /\ events[3].kind = "command"
  /\ events[4].kind = "post"

----------------------------------------------------------------------------
\* Properties of extract_command

Called == extracted # NotExtracted

\* the block has no think section
NoThink == StripThink(block) = block

Blank(l) == Strip(l) = <<>>

\* the line is a Command tag and nothing else
PlainTagLine(l) ==
  LET t == Strip(l) IN t # <<>> /\ TagAt(t, 1, CommandWord) = Len(t) + 1

\* no line of ls before line i holds a Command tag
NoTagBefore(ls, i) == \A j \in 1..(i - 1) : ~HasCommandTag(ls[j])

\* line i is the first line of ls that holds a Command tag, and it is the
\* tag alone
FirstTagAt(ls, i) == PlainTagLine(ls[i]) /\ NoTagBefore(ls, i)

\* line k is the first line of ls after line i that is not blank
NextTextAt(ls, i, k) ==
  /\ k > i
  /\ ~Blank(ls[k])
  /\ \A j \in (i + 1)..(k - 1) : Blank(ls[j])

\* the line is made of tags only
OtherTagLine(l) ==
  LET t == Strip(l) IN t # <<>> /\ t[1] = "<" /\ t[Len(t)] = ">"

Quotes == {"\"", "'"}

\* the line is command text: neither a tag, nor a fence, nor emphasis
CommandTextLine(l) ==
  LET t == Strip(l) IN t # <<>> /\ t[1] \notin {"<", BT, "*", "_", ">", "(", ")"}

IsPrefixOf(p, t) == Len(p) <= Len(t) /\ SubSeq(t, 1, Len(p)) = p

\* C6 as the specification states it: the Command tag on its own line,
\* then blank lines, then a line of command text: the result is that line
\* with only its surrounding white space trimmed, also when the command
\* begins or ends with a quote character.
C6_CanonicalExtraction ==
  (Called /\ NoThink)
    => LET ls == SplitLines(block)
       IN \A i \in 1..Len(ls) :
            FirstTagAt(ls, i)
              => \A k \in (i + 1)..Len(ls) :
                   (NextTextAt(ls, i, k) /\ CommandTextLine(ls[k]))
                     => extracted = Returned(Strip(ls[k]))

\* C7: a Command tag line followed only by blank lines and then a tag line
\* makes extract_command fail with an error; it returns no string.
C7_TagWithoutCommandRaises ==
  (Called /\ NoThink)
    => LET ls == SplitLines(block)
       IN \A i \in 1..Len(ls) :
            FirstTagAt(ls, i)
              => \A k \in (i + 1)..Len(ls) :
                   (NextTextAt(ls, i, k) /\ OtherTagLine(ls[k]))
                     => extracted = Raised(TagPresentError)

C7_Witness ==
  /\ block = JoinLines(<<TagLine, <<>>, ExpectedFoo>>)
  /\ extracted = Raised(TagPresentError)

\* C8: a Command tag line, then a command line, then further lines: the
\* result is taken from the first non-empty line after the tag alone, it
\* holds nothing of a later line, and it is that line, trimmed, when the
\* line neither begins nor ends with a quote or a backtick.
C8_StopsAtFirstCandidate ==
  (Called /\ NoThink)
    => LET ls == SplitLines(block)
       IN \A i \in 1..Len(ls) :
            FirstTagAt(ls, i)
              => \A k \in (i + 1)..(Len(ls) - 1) :
                   (/\ NextTextAt(ls, i, k)
                    /\ CommandTextLine(ls[k])
                    /\ Strip(ls[k])[1] \notin Quotes)
                     => /\ extracted.ok
                        /\ extracted.cmd # <<>>
                        /\ IsPrefixOf(extracted.cmd, Strip(ls[k]))
                        /\ Last(Strip(ls[k])) \notin Quotes \cup {BT}
                             => extracted.cmd = Strip(ls[k])

C8_Witness ==
  /\ block = JoinLines(<<TagLine, LsLine, ExpectedFoo>>)
  /\ extracted = Returned(<<"l", "s", " ", "-", "a">>)

CloseTag == <<"<", "/", "C", "o", "m", "m", "a", "n", "d", ">">>

\* the line begins with a Command tag and carries content after it
InlineTagLine(l) ==
  LET t == Strip(l)
  IN TagAt(t, 1, CommandWord) # 0 /\ TagAt(t, 1, CommandWord) <= Len(t)

\* the content after the tag, without a closing tag, backticks and quotes
InlineText(l) ==
  LET t    == Strip(l)
      rest == SubSeq(t, TagAt(t, 1, CommandWord), Len(t))
      body == IF EndsWith(rest, CloseTag)
              THEN SubSeq(rest, 1, Len(rest) - Len(CloseTag))
              ELSE rest
  IN StripQuotes(StripChars(Strip(body), {BT}))

\* C9 as the specification states it: when the Command tag line carries
\* content after the tag, the result is that whole inline text, backticks
\* and quotes trimmed, provided it is not empty.
C9_SameLineInline ==
  (Called /\ NoThink)
    => LET ls == SplitLines(block)
       IN \A i \in 1..Len(ls) :
            (/\ InlineTagLine(ls[i])
             /\ NoTagBefore(ls, i)
             /\ InlineText(ls[i]) # <<>>)
              => extracted = Returned(InlineText(ls[i]))

\* every Command tag of the text stands after ordinary text of its line
MidLineOnly(text) ==
  LET ls == SplitLines(text)
  IN \A i \in 1..Len(ls) :
       HasCommandTag(ls[i])
         => CommandTextLine(ls[i]) /\ Strip(ls[i])[1] \notin Quotes

\* the word Command occurs in the text, in any case
HasWord(text) ==
  \E i \in 1..(Len(text) - Len(CommandWord) + 1) : WordAt(text, i, CommandWord, 1)

\* some line of the block is the loose inline form
HasInlineLs ==
  LET ls == SplitLines(block) IN \E i \in 1..Len(ls) : ls[i] = InlineLs

\* C10: with a Command tag in the block outside a think section, a failing
\* extraction fails with the tag-present error, and it does fail when the
\* tag is only mentioned inside a line, whatever line would match the loose
\* inline pattern; without a tag the inline pattern decides, and a failure
\* is the no-command error.
C10_PrecisionOnceTagPresent ==
  Called
    => LET text == StripThink(block)
       IN IF HasCommandTag(text)
          THEN /\ ~extracted.ok => extracted = Raised(TagPresentError)
               /\ MidLineOnly(text) => extracted = Raised(TagPresentError)
          ELSE /\ ~extracted.ok => extracted = Raised(NoCommandError)
               /\ ~HasWord(text) => extracted = Raised(NoCommandError)
               /\ HasInlineLs => extracted = Returned(<<"l", "s">>)

C10_Witness ==
  /\ block = JoinLines(<<SeeTag, InlineLs>>)
  /\ extracted = Raised(TagPresentError)

----------------------------------------------------------------------------
\* Properties of the control loop: the ways out of an iteration

\* the run has ended because decide() returned no block
Exhausted ==
  pc \in Ending /\ raised = "none" /\ pre_exec = <<>> /\ step >= 1

\* C11: when decide() returns an empty or blank block the loop ends in
\* that iteration without an error: nothing is extracted, the repeat guard
\* is not updated, nothing is executed, post_decide() is not called, no
\* event is appended, and all that follows is the rewrite of meta.json and
\* the closing of the log.
C11_ExhaustionEndsRun ==
  [][/\ (pc = "decide" /\ raised' = "none" /\ pre_exec' = <<>>)
          => /\ pc' = "finalize"
             /\ UNCHANGED <<events, context, executed, extracted_cmds,
                            last_command, repeat_count, post_count>>
     /\ Exhausted
          => /\ Exhausted'
             /\ pc = "finalize" => pc' \in {"close", "done"}
             /\ pc = "close" => pc' = "done"
             /\ UNCHANGED <<events, context, executed, exec_calls,
                            extracted_cmds, last_command, repeat_count,
                            post_count, step>>]_vars

C11_Witness ==
  /\ pc = "done"
  /\ raised = "none"
  /\ pre_exec = <<>>
  /\ step = 2
  /\ Len(events) = 2
  /\ events_closed

\* C12: when post_decide() returns empty text after a command was
\* executed, no post record and no post-context entry are written, the
\* command record of the step stays the last record of the log, and the loop
\* asks for the next pre-exec block.
C12_EmptyReflectionContinues ==
  [][(pc = "post_decide" /\ raised' = "none" /\ post_exec' = <<>>)
       => /\ pc' = "decide"
          /\ UNCHANGED <<events, context, executed>>
          /\ events # <<>>
          /\ Last(events).kind = "command"
          /\ Last(events).command = command]_vars

C12_Witness ==
  /\ pc = "extract"
  /\ step = 2
  /\ post_exec = <<>>
  /\ Len(events) = 1
  /\ events[1].kind = "command"
  /\ Len(executed) = 1

\* the commands the repeat guard has been updated for
Guarded ==
  IF pc = "guard" THEN SubSeq(extracted_cmds, 1, Len(extracted_cmds) - 1)
  ELSE extracted_cmds

\* C13: the repeat guard is updated once for every extracted command: the
\* count is never negative, it is 0 and last_command is absent before the
\* first command, and afterwards last_command is the latest command and the
\* count is the number of commands right before it that are equal to it.
C13_RepeatCounterRule ==
  /\ repeat_count >= 0
  /\ Guarded = <<>> => repeat_count = 0 /\ last_command = NoneCmd
  /\ Guarded # <<>>
       => /\ last_command = Last(Guarded)
          /\ repeat_count = TrailingRun(Guarded) - 1

C13_Witness ==
  /\ pc = "execute"
  /\ Len(extracted_cmds) = 3
  /\ extracted_cmds[1] = extracted_cmds[2]
  /\ extracted_cmds[2] # extracted_cmds[3]
  /\ repeat_count = 0
  /\ last_command = extracted_cmds[3]

\* C14: a command that times out gives the result stdout empty, stderr
\* "Command timed out", exit_code -1; one command record with that result is
\* appended, the command is not run again, and the iteration goes on with
\* the context entry and post_decide().
C14_TimeoutIsRecorded ==
  [][/\ (pc = "execute" /\ outcome' = "timeout")
          => /\ result' = [stdout |-> "", stderr |-> "Command timed out",
                           exit_code |-> -1]
             /\ pc' = "log_command"
             /\ raised' = "none"
             /\ exec_calls' = 1
     /\ (pc = "log_command" /\ outcome = "timeout" /\ raised' = "none")
          => /\ events' = Append(events,
                            [kind |-> "command", plan |-> pre_exec,
                             command |-> command, stdout |-> "",
                             stderr |-> "Command timed out", exit_code |-> -1])
             /\ pc' = "pre_context"
             /\ exec_calls' = 1
     /\ (pc = "pre_context" /\ outcome = "timeout")
          => /\ pc' = "post_decide"
             /\ raised' = "none"
             /\ UNCHANGED <<events, executed, exec_calls>>
     /\ (pc = "post_decide" /\ outcome = "timeout" /\ raised' = "none")
          => /\ pc' \in {"decide", "log_post"}
             /\ UNCHANGED <<executed, exec_calls>>]_vars

C14_Witness ==
  /\ pc = "extract"
  /\ step = 2
  /\ outcome = "timeout"
  /\ Len(events) = 2
  /\ events[1].exit_code = -1
  /\ events[1].stderr = "Command timed out"
  /\ events[2].kind = "post"
  /\ Len(executed) = 1

\* meta.json as the start of the run writes it
StartedMeta ==
  [container |-> "breakout_agent", mode |-> "api", prompt |-> "prompt",
   started_at |-> "started_at", ended_at |-> "null"]

\* C15: meta.json is rewritten once, after the loop has ended: while the
\* loop runs and until the rewrite it holds what the start of the run
\* wrote, with ended_at null; the rewrite sets ended_at and changes no other
\* field.
C15_MetaLifecycle ==
  /\ pc \notin {"close", "done"} => meta_writes = 0 /\ meta_file = StartedMeta
  /\ pc \in {"close", "done"} => meta_writes = 1
  /\ (pc \in {"close", "done"} /\ ~meta_error)
       => /\ meta_file.ended_at # "null"
          /\ meta_file = [StartedMeta EXCEPT !.ended_at = meta_file.ended_at]
  /\ meta_error => pc = "done"

C15_Witness ==
  /\ pc = "done"
  /\ raised = "none"
  /\ step = 2
  /\ meta_writes = 1
  /\ meta_file.ended_at = EndedAt
  /\ meta_file.prompt = "prompt"
  /\ events_closed

\* C16: the log changes only by a logging call, each successful call puts
\* exactly one record of its kind after the records the log held, and no
\* record is ever removed, moved or changed.
C16_LogIsAppendOnly ==
  [][/\ events' # events
          => /\ Len(events') = Len(events) + 1
             /\ SubSeq(events', 1, Len(events)) = events
             /\ pc \in {"guard", "log_command", "log_post"}
     /\ (pc \in {"log_command", "log_post"} /\ raised' = "none")
          => /\ Len(events') = Len(events) + 1
             /\ events'[Len(events')].kind =
                  (IF pc = "log_command" THEN "command" ELSE "post")
     /\ (pc = "guard" /\ should_break' /\ raised' = "none")
          => /\ Len(events') = Len(events) + 1
             /\ events'[Len(events')].kind = "guard"]_vars

C16_Witness ==
  /\ pc = "done"
  /\ Len(events) = 3
  /\ events[1].kind = "command"
  /\ events[2].kind = "post"
  /\ events[3].kind = "guard"

Fatal == {"decide", "post_decide", "log"}

\* C17: when decide() or post_decide() raises, or an append to the log
\* raises, the loop is left at once: no proposal is requested afterwards,
\* no command is executed, no record is appended, and the records of the log
\* stay.
C17_FatalErrorsStopTheLoop ==
  [][/\ (raised = "none" /\ raised' \in Fatal)
          => /\ pc' = "finalize"
             /\ UNCHANGED <<events, executed>>
     /\ raised \in Fatal
          => /\ pc \in Ending /\ pc' \in Ending
             /\ UNCHANGED <<raised, events, executed, exec_calls, step,
                            pre_exec, post_exec, post_count, extracted_cmds>>]_vars

C17_Witness ==
  /\ pc = "done"
  /\ raised = "log"
  /\ step = 2
  /\ Len(executed) = 2
  /\ Len(events) = 2
  /\ events[1].kind = "command"

\* C18: a context entry that cannot be written does not end the run: the
\* record of the step is in the log and stays, post_decide() is called
\* after a failed pre-context write, and the next iteration follows a
\* failed post-context write.
C18_ContextErrorsAreSwallowed ==
  [][/\ (pc = "pre_context" /\ ~context_writable)
          => /\ pc' = "post_decide"
             /\ raised' = "none"
             /\ UNCHANGED <<events, context>>
             /\ Last(events).kind = "command"
             /\ Last(events).command = command
     /\ (pc = "post_context" /\ ~context_writable)
          => /\ pc' = "decide"
             /\ raised' = "none"
             /\ UNCHANGED <<events, context>>
             /\ Last(events).kind = "post"
             /\ Last(events).post = post_exec]_vars

C18_Witness ==
  /\ ~context_writable
  /\ pc = "extract"
  /\ step = 2
  /\ raised = "none"
  /\ Len(events) = 2
  /\ context = <<>>

\* C20 as the specification states it: a result and a command record have
\* exit_code -1 only when the execution timed out.
C20_MinusOneMeansTimeout ==
  /\ (pc = "log_command" /\ result.exit_code = -1) => outcome = "timeout"
  /\ (pc = "pre_context" /\ Last(events).exit_code = -1) => outcome = "timeout"

\* what a reader of the stream sees: the lines between delimiter lines
RECURSIVE Groups(_, _, _)
Groups(lines, i, cur) ==
  IF i > Len(lines) THEN <<cur>>
  ELSE IF Strip(lines[i]) = BlockDelim
  THEN <<cur>> \o Groups(lines, i + 1, <<>>)
  ELSE Groups(lines, i + 1, Append(cur, lines[i]))

\* the non-blank groups of the stream, stripped, in input order
InputSegments ==
  LET gs == Groups(SplitLines(stdin), 1, <<>>)
  IN SelectSeq([k \in 1..Len(gs) |-> Strip(JoinLines(gs[k]))],
               LAMBDA g : g # <<>>)

\* C19: in delimited mode the calls of decide and post_decide, however
\* interleaved, return the segments of the input once each and in input
\* order, and every call after the last segment returns the empty text.
C19_ReplayIsFifo ==
  LET segs == InputSegments
  IN /\ \A k \in 1..Len(returned) :
          returned[k].text = IF k <= Len(segs) THEN segs[k] ELSE <<>>
     /\ idx = IF Len(returned) <= Len(segs) THEN Len(returned) ELSE Len(segs)

\* two segments came back in order to one call of each method, and the
\* two calls after them came back empty
C19_Witness ==
  /\ Len(returned) = 4
  /\ returned[1].text # <<>>
  /\ returned[2].text # <<>>
  /\ returned[1].text # returned[2].text
  /\ returned[1].by # returned[2].by
  /\ returned[3].text = <<>>
  /\ returned[4].text = <<>>
  /\ returned[3].by # returned[4].by

\* an object with a command field
CarriesCommand(e) == e.kind # "scalar" /\ "command" \in DOMAIN e

\* a record that carries a command field and the exit code 0
Succeeded(e) ==
  CarriesCommand(e) /\ "exit_code" \in DOMAIN e /\ e.exit_code = 0

RECURSIVE CountCommands(_, _)
\* how many entries of evs from index i on carry a command field
CountCommands(evs, i) ==
  IF i > Len(evs) THEN 0
  ELSE (IF CarriesCommand(evs[i]) THEN 1 ELSE 0) + CountCommands(evs, i + 1)

RECURSIVE CountSucceeded(_, _)
CountSucceeded(evs, i) ==
  IF i > Len(evs) THEN 0
  ELSE (IF Succeeded(evs[i]) THEN 1 ELSE 0) + CountSucceeded(evs, i + 1)

\* the log of a run holds what the three writers of the loop put in it
IsRunLog(evs) ==
  \A i \in 1..Len(evs) : evs[i].kind \in {"command", "post", "guard"}

\* C21: compute_metrics reports as steps the number of records that carry
\* a command field, and as efficiency_success_rate the number of those with
\* exit_code 0 divided by steps, 0.0 when steps is 0; on the log of a run
\* steps is the number of logged executions.
C21_ScorerStepsAndSuccess ==
  metrics # NoMetrics =>
    LET n == CountCommands(events, 1)
        ok == CountSucceeded(events, 1)
    IN /\ metrics.steps = n
       /\ metrics.efficiency_success_rate = IF n = 0 THEN <<0, 1>> ELSE <<ok, n>>
       /\ IsRunLog(events) => metrics.steps = NumCommandEvents

\* a scored log of a run with two executions, one of them successful,
\* a post record and a guard record
C21_Witness ==
  /\ metrics # NoMetrics
  /\ IsRunLog(events)
  /\ metrics.steps = 2
  /\ metrics.efficiency_success_rate = <<1, 2>>
  /\ \E i \in 1..Len(events) : events[i].kind = "post"
  /\ \E i \in 1..Len(events) : events[i].kind = "guard"

\* C22: once the event log is open, every way the run can end leaves it
\* closed, the end by a failed rewrite of meta.json included.
C22_LogClosedOnEveryExit == pc = "done" => events_closed

\* the order of the operations of one iteration, main.py:301-348
StepOrder ==
  <<"decide", "extract", "guard", "execute", "log_command", "pre_context",
    "post_decide", "log_post", "post_context">>

Operations == {StepOrder[k] : k \in 1..Len(StepOrder)}

\* the position of an operation in StepOrder
OrderOf(op) == CHOOSE k \in 1..Len(StepOrder) : StepOrder[k] = op

\* the moves main.py:301-348 leaves the order by: break (:308, :322), an
\* exception, continue (:316) and the skip of an empty reflection (:342)
Follows(from, to) ==
  \/ /\ from \in Operations
     /\ \/ to = "finalize"
        \/ to \in Operations /\ OrderOf(to) = OrderOf(from) + 1
        \/ from \in {"extract", "post_decide", "post_context"} /\ to = "decide"
  \/ from = "finalize" /\ to \in {"close", "done"}
  \/ from = "close" /\ to = "done"

NumPostEvents ==
  Cardinality({i \in 1..Len(events) : events[i].kind = "post"})

\* C23: the operations of an iteration occur in the fixed order; a command
\* is executed only after its proposal was obtained, extracted and guarded;
\* post_decide is called only when the command record of the step is the
\* last record of the log; the next decide is requested only when every
\* non-empty reflection has its post record in the log.
C23_SequentialStepOrder ==
  [][/\ pc' # pc => Follows(pc, pc')
     /\ exec_calls' > exec_calls
          => /\ pre_exec # <<>>
             /\ ExtractTable[pre_exec].ok
             /\ command = ExtractTable[pre_exec].cmd
             /\ extracted_cmds # <<>>
             /\ Last(extracted_cmds) = command
             /\ last_command = command
             /\ ~should_break
             /\ exec_calls = 0
     /\ (pc = "post_decide" /\ pc' # pc)
          => /\ events # <<>>
             /\ Last(events).kind = "command"
             /\ Last(events).plan = pre_exec
             /\ Last(events).command = command
             /\ Last(events).exit_code = result.exit_code
             /\ exec_calls = 1
     /\ step' # step
          => /\ post_count = NumPostEvents
             /\ NumCommandEvents = Len(executed)
             /\ post_count <= NumCommandEvents
             /\ step > 0 /\ events # <<>> /\ Last(events).kind = "post"
                  => Last(events).post = post_exec]_vars

\* a second proposal was requested after a whole iteration: the log holds
\* the command record and the post record of the first step, the context
\* its two entries
C23_Witness ==
  /\ step = 2
  /\ pc = "extract"
  /\ Len(events) = 2
  /\ events[1].kind = "command"
  /\ events[2].kind = "post"
  /\ Len(context) = 2
  /\ Len(executed) = 1

\* the line is a Command tag wrapped in markdown adornments and nothing
\* else
AdornedTagLine(l) ==
  LET t == Strip(l)
      m == MdStrip(t)
  IN m # <<>> /\ m # t /\ TagAt(m, 1, CommandWord) = Len(m) + 1

\* the text is made of adornment characters only
OnlyAdornments(text) == StripChars(text, MdLead \cup MdTrail) = <<>>

\* C24: when the first Command tag of a block stands alone on its line,
\* wrapped only in markdown adornments, extract_command returns the first
\* non-empty following line as the command, and never the adornment
\* characters.
C24_AdornedTagLine ==
  (Called /\ NoThink)
    => LET ls == SplitLines(block)
       IN \A i \in 1..Len(ls) :
            (AdornedTagLine(ls[i]) /\ NoTagBefore(ls, i))
              => /\ extracted.ok => ~OnlyAdornments(extracted.cmd)
                 /\ \A k \in (i + 1)..Len(ls) :
                      (/\ NextTextAt(ls, i, k)
                       /\ CommandTextLine(ls[k])
                       /\ Strip(ls[k]) = StripQuotes(Strip(ls[k])))
                        => extracted = Returned(Strip(ls[k]))

\* C25: a replay run over a finite stream reaches the finalization of
\* meta.json, whatever extraction, the repeat guard, execution and
\* reflection do, and it calls decide at most once more than the stream
\* has segments.
C25_ReplayRunTerminates ==
  /\ <>(meta_writes = 1)
  /\ [](step <= Len(InputSegments) + 1)

\* a finished run that called decide once more than the stream has
\* segments: every segment was a proposal whose extraction failed
C25_Witness ==
  /\ pc = "done"
  /\ meta_writes = 1
  /\ Len(InputSegments) = 3
  /\ step = 4

\* the segments alternate: a proposal at every odd position, a reflection
\* at every even one
Alternating(segs) ==
  \A k \in 1..Len(segs) :
    IF k % 2 = 1 THEN segs[k] \in PreBlocks ELSE segs[k] = PostText

\* C26: in a replay run over a stream of strictly alternating pre-exec and
\* post-exec segments, decide returns only segments at pre-exec positions
\* and post_decide only segments at post-exec positions, so that no
\* post-exec segment reaches the command extractor.
C26_PrePostAlignment ==
  Alternating(InputSegments)
    => /\ \A k \in 1..Len(returned) :
            returned[k].text # <<>>
              => (returned[k].by = "decide" <=> k % 2 = 1)
       /\ pc = "extract" => pre_exec \in PreBlocks

\* the last iteration ended at an extraction failure and the loop is
\* about to ask for the next proposal
RetryPending ==
  /\ pc = "decide"
  /\ step > 0
  /\ pre_exec # <<>>
  /\ ~ExtractTable[pre_exec].ok

\* C27: after an extraction failure the next proposal is requested under
\* the step number of the failed one: the retry does not increment the
\* step counter.
C27_StepKeptOnParseFailure ==
  [][(RetryPending /\ pc' # pc) => step' = step]_vars

====
